---------------------------- MODULE Spec2Model ----------------------------
(***************************************************************************)
(* A model of nsetools/nse.py: the holiday calendar and the market clock   *)
(* (NseHolidays.get_holiday_list, market_status), the conditionally cached *)
(* fetch operations of class Nse and the threaded batch get_quote, the     *)
(* response normaliser (clean_server_response) and the peer extraction of  *)
(* get_peer_companies.                                                     *)
(*                                                                         *)
(* Four specifications share the module, one per part of the program:     *)
(*   SpecCalendar  get_holiday_list, market_status and the wall clock      *)
(*   SpecNse       the caches, the worker pool of get_quote                *)
(*   SpecClean     clean_server_response                                   *)
(*   SpecPeers     the extraction loop of get_peer_companies               *)
(* Each leaves the variables of the other parts at their idle values.      *)
(***************************************************************************)
EXTENDS Integers, Sequences, FiniteSets, TLC

VARIABLES
    \* ---- calendar and clock
    wd0,          \* weekday() of day 0, the first day of year 0 (Monday = 0)
    rows,         \* the upstream holiday table: <<serial, date>> per row
    now,          \* datetime.now(): [date |-> day ordinal, time |-> <<h, m, s, us>>]
    ret,          \* the last call of the calendar part and what it returned
    parse_cache,  \* the lru_cache of __parse_holiday_list__: the instances it holds
    holiday_fetches,   \* read_url(holiday_url) requests issued so far
    \* ---- class Nse: the caches and the worker pool of get_quote
    market_open,  \* what market_status() returns at this moment
    condition,    \* `not market_status()` as evaluated when the class body ran
    top_cache,    \* per get_top_* operation, its lru_cache (when it has one)
    quote_cache,  \* the lru_cache of get_quote (when it has one)
    codes_cache,  \* the lru_cache of get_stock_codes
    valid_cache,  \* the lru_cache of is_valid_code
    call,         \* the get_quote call the main thread is inside, or None
    tasks,        \* the pool's tasks of that call: [pc, result] per symbol
    calls,        \* calls made so far
    registry_fetches,  \* read_url(stocks_csv_url) requests issued so far
    closed_fetches,    \* those issued since the market last closed, while it is closed
    closed_runs,  \* <<operation, key>> a call made while closed has executed
    last,         \* the last finished call: what it did and returned
    \* ---- clean_server_response
    resp_dict,    \* the mapping handed to clean_server_response
    once,         \* clean_server_response(resp_dict), once called
    twice,        \* clean_server_response of that result, once called
    \* ---- get_peer_companies
    pieces,       \* what the upstream text after 'data:' is made of
    data          \* the records the extraction loop returned, once run

calendarVars == <<wd0, rows, now, ret, parse_cache, holiday_fetches>>

nseVars == <<market_open, condition, top_cache, quote_cache, codes_cache, valid_cache,
             call, tasks, calls, registry_fetches, closed_fetches, closed_runs, last>>

cleanVars == <<resp_dict, once, twice>>

peerVars == <<pieces, data>>

vars == <<calendarVars, nseVars, cleanVars, peerVars>>

(***************************************************************************)
(* Bounds of the model.                                                    *)
(***************************************************************************)
MaxRows == 3        \* rows of the upstream holiday table
MaxSerial == 2      \* serial numbers run over 1..MaxSerial
DaysBefore == 1     \* the clock runs over the last DaysBefore + 1 days of year 0

None == "None"

\* Python's None as a value of a call, and a raised Exception in its place.
NoneValue == [rendered |-> "None"]
RaisedException == [rendered |-> "Exception"]

\* The main thread is inside no get_quote call.
NoCall == [codes |-> <<>>]

(***************************************************************************)
(* Dates are day ordinals: day 0 is January 1 of year 0, and a year has    *)
(* DaysPerYear days, so date.year is the quotient and date.weekday()      *)
(* follows from the weekday of day 0.  timedelta(days=n) is + n.           *)
(***************************************************************************)
DaysPerYear == 365

year(d) == d \div DaysPerYear

weekday(d) == (d + wd0) % 7

YearEnd == DaysPerYear - 1          \* December 31 of year 0

\* The days the clock runs over: the last DaysBefore + 1 days of year 0.
ClockDays == (YearEnd - DaysBefore) .. YearEnd

\* The times of day the clock is sampled at, in increasing order.
ClockTimes ==
    << <<0, 0, 0, 0>>, <<9, 15, 0, 0>>, <<9, 15, 0, 1>>,
       <<15, 29, 59, 999999>>, <<15, 30, 0, 0>>, <<23, 59, 59, 999999>> >>

\* datetime.time's ordering: by hour, minute, second, microsecond.
TimeLess(a, b) ==
    \/ a[1] < b[1]
    \/ a[1] = b[1] /\ a[2] < b[2]
    \/ a[1] = b[1] /\ a[2] = b[2] /\ a[3] < b[3]
    \/ a[1] = b[1] /\ a[2] = b[2] /\ a[3] = b[3] /\ a[4] < b[4]

TimeIndex(t) == CHOOSE i \in 1..Len(ClockTimes) : ClockTimes[i] = t

\* The next sample of the clock after n (n itself at the end of the window).
Later(n) ==
    LET i == TimeIndex(n.time) IN
    IF i < Len(ClockTimes) THEN [date |-> n.date, time |-> ClockTimes[i + 1]]
    ELSE IF n.date + 1 \in ClockDays THEN [date |-> n.date + 1, time |-> ClockTimes[1]]
    ELSE n

\* The dates a row of the upstream table may carry.
RowDates == {YearEnd - 1, YearEnd + 1}

\* The tables the page may hold: the upstream numbering starts at 1.
RowTables ==
    {t \in UNION {[1..n -> (1..MaxSerial) \X RowDates] : n \in 0..MaxRows} :
        Len(t) > 0 => t[1][1] = 1}

(***************************************************************************)
(* NseHolidays.__parse_holiday_list__ and the csv pass of get_holiday_list *)
(* (lines 30-38): each row of the page gives series[0][0], the serial      *)
(* text, and series[1][0], the date text; int() and dateutil's parse()     *)
(* turn them into the number and the date the table holds here.            *)
(***************************************************************************)
clean_holiday_list == rows

\* Lines 40-51: the trading holidays, walking the rows with `previous`.
RECURSIVE TradingWalk(_, _, _, _)
TradingWalk(list, i, previous, todays_date) ==
    IF i > Len(list) THEN <<>>
    ELSE IF previous < list[i][1]
         THEN (IF todays_date <= list[i][2] THEN <<list[i][2]>> ELSE <<>>)
              \o TradingWalk(list, i + 1, previous + 1, todays_date)
         ELSE TradingWalk(list, i + 1, previous, todays_date)

TradingHolidays(list, todays_date) == TradingWalk(list, 1, 0, todays_date)

\* Lines 57-61: the loop appending s (Saturday) and d (Sunday), a week at a time.
RECURSIVE WeekendLoop(_, _, _)
WeekendLoop(d, s, todays_date) ==
    IF year(d) = year(todays_date)
    THEN <<s, d>> \o WeekendLoop(d + 7, s + 7, todays_date)
    ELSE <<>>

\* Lines 54-56: d is the Sunday of today's week, s the day before it.
FirstSunday(todays_date) == todays_date + (6 - weekday(todays_date))

Weekends(todays_date) ==
    LET d == FirstSunday(todays_date)
        s == d - 1
    IN WeekendLoop(d, s, todays_date)

get_holiday_list(todays_date) ==
    TradingHolidays(clean_holiday_list, todays_date) \o Weekends(todays_date)

InList(x, list) == \E i \in 1..Len(list) : list[i] = x

\* Lines 114 and 116: the bounds of the trading window.
start_time == <<9, 15, 0, 0>>
end_time == <<15, 30, 0, 0>>

\* The comparison of line 118 with the opening bound taken as inclusive.
InWindowInclusive(current_time) ==
    ~TimeLess(current_time, start_time) /\ TimeLess(current_time, end_time)

\* Lines 118-122.
InWindow(current_time) ==
    TimeLess(start_time, current_time) /\ TimeLess(current_time, end_time)

\* @lru_cache(maxsize=2) of line 66.
parse_cache_size == 2

\* The page is requested at most once per slot of the cache.
MaxHolidayFetches == parse_cache_size

\* The NseHolidays instance a caller of get_holiday_list() keeps, and the ids
\* an instance made inside market_status() (line 104) may get: the cache's key
\* is `self`, compared by identity, and an id is free again once no cache
\* entry and no caller holds the instance.
nse_holidays == 0

FreshInstance ==
    CHOOSE id \in 1..(parse_cache_size + 1) :
        /\ ~InList(id, parse_cache)
        /\ \A other \in 1..(id - 1) : InList(other, parse_cache)

\* self.__parse_holiday_list__() through its lru_cache: a hit moves the entry
\* to the most recently used end; a miss runs the body and stores the
\* instance, the oldest entry making room once maxsize are held.
ParseCacheAfter(self) ==
    IF InList(self, parse_cache)
    THEN SelectSeq(parse_cache, LAMBDA k : k # self) \o <<self>>
    ELSE IF Len(parse_cache) >= parse_cache_size
         THEN Append(Tail(parse_cache), self)
         ELSE Append(parse_cache, self)

\* Lines 80-81: the body fetches the page, once per miss.
FetchesAfter(self) ==
    IF InList(self, parse_cache) THEN holiday_fetches ELSE holiday_fetches + 1

\* Line 30 for the instance `self`.
ParseHolidayList(self) ==
    /\ FetchesAfter(self) <= MaxHolidayFetches
    /\ parse_cache' = ParseCacheAfter(self)
    /\ holiday_fetches' = FetchesAfter(self)

\* The parts of the program a specification leaves alone.
CalendarIdle ==
    /\ wd0 = 0
    /\ rows = <<>>
    /\ now = [date |-> YearEnd, time |-> ClockTimes[1]]
    /\ ret = [op |-> None]
    /\ parse_cache = <<>>
    /\ holiday_fetches = 0

NseIdle ==
    /\ market_open = FALSE
    /\ condition = TRUE
    /\ top_cache = <<>>
    /\ quote_cache = <<>>
    /\ codes_cache = <<>>
    /\ valid_cache = <<>>
    /\ call = NoCall
    /\ tasks = <<>>
    /\ calls = 0
    /\ registry_fetches = 0
    /\ closed_fetches = 0
    /\ closed_runs = {}
    /\ last = [op |-> None]

NotCalled == [called |-> FALSE]

CleanIdle ==
    /\ resp_dict = <<>>
    /\ once = NotCalled
    /\ twice = NotCalled

PeersIdle ==
    /\ pieces = <<>>
    /\ data = NotCalled

(***************************************************************************)
(* The calendar's actions.                                                 *)
(***************************************************************************)
InitCalendar ==
    /\ wd0 \in 0..6
    /\ rows \in RowTables
    /\ now \in [date : ClockDays, time : {ClockTimes[i] : i \in 1..Len(ClockTimes)}]
    /\ ret = [op |-> None]
    /\ parse_cache = <<>>
    /\ holiday_fetches = 0
    /\ NseIdle
    /\ CleanIdle
    /\ PeersIdle

Tick ==
    /\ Later(now) # now
    /\ now' = Later(now)
    /\ UNCHANGED <<wd0, rows, ret, parse_cache, holiday_fetches>>
    /\ UNCHANGED <<nseVars, cleanVars, peerVars>>

\* nse_holidays.get_holiday_list() on the instance the caller keeps: the raw
\* listing through the cache (line 30), then one read of the clock (line 43).
CallGetHolidayList ==
    /\ ParseHolidayList(nse_holidays)
    /\ ret' = [op |-> "get_holiday_list",
               todays_date |-> now.date,
               trading |-> TradingHolidays(clean_holiday_list, now.date),
               weekends |-> Weekends(now.date),
               holiday_list |-> get_holiday_list(now.date)]
    /\ UNCHANGED <<wd0, rows, now>>
    /\ UNCHANGED <<nseVars, cleanVars, peerVars>>

\* market_status(): the clock is read at line 43 (inside get_holiday_list), at
\* line 108 (the date) and, unless today is a holiday, at line 111 (the time);
\* it may have moved on between the reads.  Line 104 makes a new NseHolidays
\* for the call.
CallMarketStatus ==
  /\ ParseHolidayList(FreshInstance)
  /\
    \E n2 \in {now, Later(now)} :
      LET holiday_list == get_holiday_list(now.date) IN
      IF InList(n2.date, holiday_list)
      THEN /\ ret' = [op |-> "market_status", holiday_list |-> holiday_list,
                      date |-> n2.date, time |-> n2.time, value |-> FALSE]
           /\ now' = n2
           /\ UNCHANGED <<wd0, rows>>
           /\ UNCHANGED <<nseVars, cleanVars, peerVars>>
      ELSE \E n3 \in {n2, Later(n2)} :
           /\ ret' = [op |-> "market_status", holiday_list |-> holiday_list,
                      date |-> n2.date, time |-> n3.time,
                      value |-> InWindow(n3.time)]
           /\ now' = n3
           /\ UNCHANGED <<wd0, rows>>
           /\ UNCHANGED <<nseVars, cleanVars, peerVars>>

NextCalendar == Tick \/ CallGetHolidayList \/ CallMarketStatus

SpecCalendar == InitCalendar /\ [][NextCalendar]_vars

(***************************************************************************)
(* Claims about the calendar and the clock.                                *)
(***************************************************************************)
SecondOfDay(t) == t[1] * 3600 + t[2] * 60 + t[3]

\* 09:15:00 < t < 15:30:00, counted in seconds and microseconds of the day.
StrictlyInTradingHours(t) ==
    /\ \/ SecondOfDay(t) > 33300
       \/ SecondOfDay(t) = 33300 /\ t[4] > 0
    /\ SecondOfDay(t) < 55800

\* C3: market_status() returns true exactly when the date it reads is not in the
\* list get_holiday_list() returned to it and the time it reads lies strictly
\* between 09:15:00 and 15:30:00; so false on a listed date at any time, and
\* false at exactly 09:15:00 and at exactly 15:30:00.
C3_MarketStatusIff ==
    ret.op = "market_status" =>
        ret.value = (/\ ~(ret.date \in {ret.holiday_list[i] : i \in 1..Len(ret.holiday_list)})
                     /\ StrictlyInTradingHours(ret.time))

\* market_status() has answered at exactly 09:15:00 on a day that is no holiday.
C3_Witness ==
    /\ ret.op = "market_status"
    /\ ret.time = <<9, 15, 0, 0>>
    /\ ~InList(ret.date, ret.holiday_list)
    /\ ret.value = FALSE

\* C4: the list get_holiday_list() returns holds no date before today, in its
\* trading-holiday part and in its weekend part, whatever the weekday of today.
C4_NoDateBeforeToday ==
    ret.op = "get_holiday_list" =>
        /\ \A i \in 1..Len(ret.trading) : ret.trading[i] >= ret.todays_date
        /\ \A i \in 1..Len(ret.weekends) : ret.weekends[i] >= ret.todays_date

\* The rows from the first serial reset on: a row resets when its serial is not
\* greater than the serial of the row before it.
IsReset(list, i) == i > 1 /\ list[i][1] <= list[i - 1][1]

AfterFirstReset(list) ==
    {i \in 1..Len(list) : \E j \in 2..i : IsReset(list, j)}

\* C5: the trading-holiday part of get_holiday_list() comes from the first run of
\* increasing serials only: the date of a row at or after the first serial reset
\* is in it only if a row of the first run carries the same date.
C5_OnlyFirstRun ==
    ret.op = "get_holiday_list" =>
        \A i \in AfterFirstReset(rows) :
            InList(rows[i][2], ret.trading) =>
                \E j \in (1..Len(rows)) \ AfterFirstReset(rows) : rows[j][2] = rows[i][2]

\* C11: over any calls of market_status() and get_holiday_list() in one process
\* the upstream holiday page is fetched at most once.
C11_HolidayPageFetchedOnce == holiday_fetches <= 1

(***************************************************************************)
(* class Nse: functools.lru_cache, the conditionally cached operations and *)
(* the worker pool of get_quote.                                           *)
(***************************************************************************)
MaxCalls == 2       \* calls one behaviour makes
MaxBatch == 2       \* symbols of one get_quote call

\* Nse.__cache_size__ as the decorators read it (the class attribute).
cache_size == 64

\* The registry EQUITY_L.csv lists StockCodes; the quote page of a symbol in
\* NotTraded carries no blob that parses.
Symbols == {"A", "NT", "BOGUS"}
StockCodes == {"A", "NT"}
NotTraded == {"NT"}

TopOps == {"get_top_gainers", "get_top_losers", "get_top_volume",
           "get_most_active", "get_advances_declines"}

Batches == UNION {[1..n -> Symbols] : n \in 1..MaxBatch}

\* functools.lru_cache: a cache is its entries, least recently used first.
CacheHas(cache, key) == \E i \in 1..Len(cache) : cache[i].key = key

CacheGet(cache, key) ==
    (CHOOSE e \in {cache[i] : i \in 1..Len(cache)} : e.key = key).value

\* A hit moves the entry to the most recently used end.
CacheTouch(cache, key) ==
    SelectSeq(cache, LAMBDA e : e.key # key)
        \o SelectSeq(cache, LAMBDA e : e.key = key)

\* Storing a result: kept as is when another thread stored the key meanwhile,
\* else the oldest entry makes room once maxsize entries are held.
CachePut(cache, key, value) ==
    IF CacheHas(cache, key) THEN cache
    ELSE IF Len(cache) >= cache_size
         THEN Append(Tail(cache), [key |-> key, value |-> value])
         ELSE Append(cache, [key |-> key, value |-> value])

\* conditional_decorator(lru_cache(...), condition): the function is wrapped
\* when `condition` held as the class body ran, and left bare otherwise.
Wrapped == condition

\* render_response: a JSON string when as_json is True, else the mapping.
render_response(symbol, as_json) ==
    [symbol |-> symbol, rendered |-> IF as_json THEN "json" ELSE "dict"]

\* Lines 196-201: the search of the registry for the code.
is_valid_code(code) == code \in StockCodes

\* Lines 236-241: what get_quote returns from the pool's results.
QuoteResult(quotes, as_json) ==
    IF as_json THEN [kind |-> "list", items |-> quotes]
    ELSE LET kept == SelectSeq(quotes, LAMBDA x : x # NoneValue) IN
         IF kept # <<>>
         THEN [kind |-> "DataFrame", items |-> kept]
         ELSE [kind |-> "None", items |-> <<>>]

AllDone == \A i \in 1..Len(tasks) : tasks[i].pc = "done"

Raised == \E i \in 1..Len(tasks) : tasks[i].result = RaisedException

InitNse ==
    /\ CalendarIdle
    /\ CleanIdle
    /\ PeersIdle
    /\ market_open \in BOOLEAN
    /\ condition = ~market_open
    /\ top_cache = [op \in TopOps |-> <<>>]
    /\ quote_cache = <<>>
    /\ codes_cache = <<>>
    /\ valid_cache = <<>>
    /\ call = NoCall
    /\ tasks = <<>>
    /\ calls = 0
    /\ registry_fetches = 0
    /\ closed_fetches = 0
    /\ closed_runs = {}
    /\ last = [op |-> None]

\* The trading window opens or closes as time passes.
MarketOpens ==
    /\ ~market_open
    /\ market_open' = TRUE
    /\ closed_fetches' = 0
    /\ UNCHANGED <<condition, top_cache, quote_cache, codes_cache, valid_cache, call,
                   tasks, calls, registry_fetches, closed_runs, last>>
    /\ UNCHANGED <<calendarVars, cleanVars, peerVars>>

MarketCloses ==
    /\ market_open
    /\ market_open' = FALSE
    /\ UNCHANGED <<condition, top_cache, quote_cache, codes_cache, valid_cache, call,
                   tasks, calls, registry_fetches, closed_fetches, closed_runs, last>>
    /\ UNCHANGED <<calendarVars, cleanVars, peerVars>>

\* What a finished call leaves in `last`, and in closed_runs when it ran the
\* underlying operation while the market was closed.
Finish(op, key, open, executed, stored, raised, result) ==
    /\ last' = [op |-> op, key |-> key, open |-> open, executed |-> executed,
                stored |-> stored, raised |-> raised, result |-> result,
                repeat |-> executed /\ ~open /\ <<op, key>> \in closed_runs]
    /\ closed_runs' = IF executed /\ ~open THEN closed_runs \cup {<<op, key>>}
                      ELSE closed_runs

\* get_top_gainers, get_top_losers, get_top_volume, get_most_active and
\* get_advances_declines, called from the main thread with as_json.
CallTop(op, as_json) ==
    /\ call = NoCall
    /\ calls < MaxCalls
    /\ calls' = calls + 1
    /\ IF Wrapped /\ CacheHas(top_cache[op], as_json)
       THEN /\ top_cache' = [top_cache EXCEPT ![op] = CacheTouch(@, as_json)]
            /\ Finish(op, as_json, market_open, FALSE, FALSE, FALSE,
                      CacheGet(top_cache[op], as_json))
       ELSE /\ top_cache' = IF Wrapped
                            THEN [top_cache EXCEPT ![op] =
                                     CachePut(@, as_json, render_response(op, as_json))]
                            ELSE top_cache
            /\ Finish(op, as_json, market_open, TRUE, Wrapped, FALSE,
                      render_response(op, as_json))
    /\ UNCHANGED <<market_open, condition, quote_cache, codes_cache, valid_cache, call,
                   tasks, registry_fetches, closed_fetches>>
    /\ UNCHANGED <<calendarVars, cleanVars, peerVars>>

\* get_quote(*codes, as_json=...): a hit of its lru_cache returns at once;
\* otherwise line 234-235 hands one task per symbol to the pool.
CallGetQuote(codes, as_json) ==
    /\ call = NoCall
    /\ calls < MaxCalls
    /\ calls' = calls + 1
    /\ LET key == <<codes, as_json>> IN
       IF Wrapped /\ CacheHas(quote_cache, key)
       THEN /\ quote_cache' = CacheTouch(quote_cache, key)
            /\ Finish("get_quote", key, market_open, FALSE, FALSE, FALSE,
                      CacheGet(quote_cache, key))
            /\ UNCHANGED <<call, tasks>>
       ELSE /\ call' = [codes |-> codes, as_json |-> as_json, open |-> market_open]
            /\ tasks' = [i \in 1..Len(codes) |-> [pc |-> "is_valid_code", result |-> NoneValue]]
            /\ UNCHANGED <<quote_cache, last, closed_runs>>
    /\ UNCHANGED <<market_open, condition, top_cache, codes_cache, valid_cache,
                   registry_fetches, closed_fetches>>
    /\ UNCHANGED <<calendarVars, cleanVars, peerVars>>

\* Where a task goes once is_valid_code(code) has answered (line 213).
AfterValid(i, valid) ==
    tasks' = [tasks EXCEPT ![i].pc = IF valid THEN "read_url" ELSE "done"]

\* A worker enters is_valid_code(code): the lookup of its lru_cache.
WorkerIsValidCode(i) ==
    /\ call # NoCall
    /\ i \in 1..Len(tasks)
    /\ tasks[i].pc = "is_valid_code"
    /\ LET code == call.codes[i] IN
       IF CacheHas(valid_cache, code)
       THEN /\ valid_cache' = CacheTouch(valid_cache, code)
            /\ AfterValid(i, CacheGet(valid_cache, code))
       ELSE /\ tasks' = [tasks EXCEPT ![i].pc = "get_stock_codes"]
            /\ UNCHANGED valid_cache
    /\ UNCHANGED <<market_open, condition, top_cache, quote_cache, codes_cache, call,
                   calls, registry_fetches, closed_fetches, closed_runs, last>>
    /\ UNCHANGED <<calendarVars, cleanVars, peerVars>>

\* Line 197: the lookup of get_stock_codes' lru_cache; on a hit the registry
\* is searched and is_valid_code's result stored.
WorkerGetStockCodes(i) ==
    /\ call # NoCall
    /\ i \in 1..Len(tasks)
    /\ tasks[i].pc = "get_stock_codes"
    /\ LET code == call.codes[i] IN
       IF CacheHas(codes_cache, "self")
       THEN /\ codes_cache' = CacheTouch(codes_cache, "self")
            /\ valid_cache' = CachePut(valid_cache, code, is_valid_code(code))
            /\ AfterValid(i, is_valid_code(code))
       ELSE /\ tasks' = [tasks EXCEPT ![i].pc = "read_registry"]
            /\ UNCHANGED <<codes_cache, valid_cache>>
    /\ UNCHANGED <<market_open, condition, top_cache, quote_cache, call, calls,
                   registry_fetches, closed_fetches, closed_runs, last>>
    /\ UNCHANGED <<calendarVars, cleanVars, peerVars>>

\* Lines 164-187 after a miss: the registry is fetched and stored, then
\* is_valid_code searches it and its own result is stored.
WorkerReadRegistry(i) ==
    /\ call # NoCall
    /\ i \in 1..Len(tasks)
    /\ tasks[i].pc = "read_registry"
    /\ registry_fetches' = registry_fetches + 1
    /\ closed_fetches' = IF market_open THEN closed_fetches ELSE closed_fetches + 1
    /\ LET code == call.codes[i] IN
       /\ codes_cache' = CachePut(codes_cache, "self", "EQUITY_L")
       /\ valid_cache' = CachePut(valid_cache, code, is_valid_code(code))
       /\ AfterValid(i, is_valid_code(code))
    /\ UNCHANGED <<market_open, condition, top_cache, quote_cache, call, calls,
                   closed_runs, last>>
    /\ UNCHANGED <<calendarVars, cleanVars, peerVars>>

\* Lines 214-233: the quote page is fetched and parsed; a blob that does not
\* parse raises Exception('Symbol Not Traded today') in the task.
WorkerReadQuote(i) ==
    /\ call # NoCall
    /\ i \in 1..Len(tasks)
    /\ tasks[i].pc = "read_url"
    /\ LET code == call.codes[i] IN
       tasks' = [tasks EXCEPT ![i] =
                    [pc |-> "done",
                     result |-> IF code \in NotTraded THEN RaisedException
                                ELSE render_response(code, call.as_json)]]
    /\ UNCHANGED <<market_open, condition, top_cache, quote_cache, codes_cache,
                   valid_cache, call, calls, registry_fetches, closed_fetches, closed_runs, last>>
    /\ UNCHANGED <<calendarVars, cleanVars, peerVars>>

\* pool.map returns once every task is done, and raises if a task raised;
\* lines 236-241 build the result, which the lru_cache (if any) stores.
GetQuoteReturns ==
    /\ call # NoCall
    /\ AllDone
    /\ LET key == <<call.codes, call.as_json>>
           quotes == [i \in 1..Len(tasks) |-> tasks[i].result]
           result == QuoteResult(quotes, call.as_json)
       IN IF Raised
          THEN /\ Finish("get_quote", key, call.open, TRUE, FALSE, TRUE, RaisedException)
               /\ UNCHANGED quote_cache
          ELSE /\ Finish("get_quote", key, call.open, TRUE, Wrapped, FALSE, result)
               /\ quote_cache' = IF Wrapped THEN CachePut(quote_cache, key, result)
                                 ELSE quote_cache
    /\ call' = NoCall
    /\ tasks' = <<>>
    /\ UNCHANGED <<market_open, condition, top_cache, codes_cache, valid_cache, calls,
                   registry_fetches, closed_fetches>>
    /\ UNCHANGED <<calendarVars, cleanVars, peerVars>>

NextNse ==
    \/ MarketOpens
    \/ MarketCloses
    \/ \E op \in TopOps, as_json \in BOOLEAN : CallTop(op, as_json)
    \/ \E codes \in Batches, as_json \in BOOLEAN : CallGetQuote(codes, as_json)
    \/ \E i \in 1..MaxBatch : WorkerIsValidCode(i)
    \/ \E i \in 1..MaxBatch : WorkerGetStockCodes(i)
    \/ \E i \in 1..MaxBatch : WorkerReadRegistry(i)
    \/ \E i \in 1..MaxBatch : WorkerReadQuote(i)
    \/ GetQuoteReturns

SpecNse == InitNse /\ [][NextNse]_vars

(***************************************************************************)
(* Claims about the caches and the batch get_quote.                        *)
(***************************************************************************)
CondOps == TopOps \cup {"get_quote"}

\* C1: a call of a conditionally cached operation made while the market is open
\* executes the underlying operation, and its result is neither served from the
\* cache nor stored in it, whatever the market state was when the class was built.
C1_OpenCallBypassesCache ==
    (last.op \in CondOps /\ last.open) => (last.executed /\ ~last.stored)

\* C2: of the calls of one conditionally cached operation with identical arguments
\* made while the market is closed, at most one executes the underlying operation.
C2_ClosedCallsExecuteOnce ==
    (last.op \in CondOps /\ ~last.open) => ~last.repeat

\* The symbols of a returned batch, slot by slot (None for a null slot).
ResultSymbols(result) ==
    [i \in 1..Len(result.items) |->
        IF result.items[i] = NoneValue THEN None ELSE result.items[i].symbol]

IsBatch(key) == Len(key[1]) > 1

\* C6: a batch get_quote that returns holds exactly one entry per symbol of the
\* registry, in order, and no slot for the others, with as_json false or true
\* (so it is empty when no symbol is in the registry).
C6_BatchDropsInvalid ==
    (last.op = "get_quote" /\ IsBatch(last.key) /\ ~last.raised) =>
        ResultSymbols(last.result) = SelectSeq(last.key[1], LAMBDA c : c \in StockCodes)

\* C7: a batch get_quote with one symbol whose blob does not parse does not raise:
\* it returns the quotes of the other symbols of the registry and drops that one.
C7_BatchSurvivesNotTraded ==
    (/\ last.op = "get_quote"
     /\ IsBatch(last.key)
     /\ Cardinality({i \in 1..Len(last.key[1]) : last.key[1][i] \in NotTraded}) = 1) =>
        /\ ~last.raised
        /\ SelectSeq(ResultSymbols(last.result), LAMBDA c : c # None)
             = SelectSeq(last.key[1], LAMBDA c : c \in StockCodes \ NotTraded)

\* C10: while the market is closed, under every interleaving of the pool's
\* threads, the registry behind get_stock_codes is fetched at most once.
C10_RegistryFetchedOnce == ~market_open => closed_fetches <= 1

(***************************************************************************)
(* Nse.clean_server_response.  A value of the mapping is a str (its        *)
(* characters in order), a float or None; the keys are str already, as the *)
(* keys of a decoded JSON object are, so line 476 keeps them.              *)
(***************************************************************************)
MaxStrLen == 3      \* characters of a string value

Keys == {"k1", "k2"}

Digits == {"0", "1"}

Chars == Digits \cup {"-", ",", ".", "a"}

Str(chars) == [str |-> chars]

Float(mantissa, decimals) == [float |-> <<mantissa, decimals>>]

NoneType == [none |-> TRUE]

ValueError == [raised |-> "ValueError"]

Strings == UNION {[1..n -> Chars] : n \in 0..MaxStrLen}

InputValues ==
    {Str(c) : c \in Strings} \cup {Float(1, 0), Float(-11, 1), Float(0, 0)} \cup {NoneType}

IsStr(value) == DOMAIN value = {"str"}

\* re.search(r'^[-]?[0-9,.]+$', value): an optional '-', then one or more of
\* the digits, ',' and '.', up to the end.
NumberPattern(chars) ==
    LET body == IF chars # <<>> /\ chars[1] = "-" THEN Tail(chars) ELSE chars IN
    /\ body # <<>>
    /\ \A i \in 1..Len(body) : body[i] \in Digits \cup {",", "."}

\* re.sub(',', '', value)
RemoveCommas(chars) == SelectSeq(chars, LAMBDA c : c # ",")

DigitValue(c) == IF c = "1" THEN 1 ELSE 0

RECURSIVE DigitsValue(_)
DigitsValue(chars) ==
    IF chars = <<>> THEN 0
    ELSE 10 * DigitsValue(SubSeq(chars, 1, Len(chars) - 1)) + DigitValue(chars[Len(chars)])

\* A float as <<mantissa, decimals>> with no trailing zero among the decimals:
\* equal floats have equal representations.
RECURSIVE Normalize(_, _)
Normalize(mantissa, decimals) ==
    IF decimals > 0 /\ mantissa % 10 = 0 THEN Normalize(mantissa \div 10, decimals - 1)
    ELSE Float(mantissa, decimals)

\* float(text): a sign, then digits with at most one '.', and at least one
\* digit; anything else raises ValueError.
ParseFloat(chars) ==
    LET neg == chars # <<>> /\ chars[1] = "-"
        body == IF neg THEN Tail(chars) ELSE chars
        dots == {i \in 1..Len(body) : body[i] = "."}
        digits == SelectSeq(body, LAMBDA c : c # ".")
        decimals == IF dots = {} THEN 0 ELSE Len(body) - (CHOOSE i \in dots : TRUE)
    IN IF Cardinality(dots) > 1 \/ digits = <<>>
          \/ \E i \in 1..Len(digits) : digits[i] \notin Digits
       THEN ValueError
       ELSE Normalize((IF neg THEN -1 ELSE 1) * DigitsValue(digits), decimals)

\* Lines 479-486 for one value.
CleanValue(value) ==
    IF IsStr(value)
    THEN IF value.str = <<"-">> THEN NoneType
         ELSE IF NumberPattern(value.str) THEN ParseFloat(RemoveCommas(value.str))
         ELSE Str(value.str)
    ELSE value

\* Lines 474-487: the call raises when float() raises on one of the values.
clean_server_response(d) ==
    IF \E key \in DOMAIN d : CleanValue(d[key]) = ValueError THEN ValueError
    ELSE [key \in DOMAIN d |-> CleanValue(d[key])]

InitClean ==
    /\ CalendarIdle
    /\ NseIdle
    /\ PeersIdle
    /\ resp_dict \in [Keys -> InputValues]
    /\ once = NotCalled
    /\ twice = NotCalled

CallClean ==
    /\ once = NotCalled
    /\ once' = clean_server_response(resp_dict)
    /\ UNCHANGED <<resp_dict, twice>>
    /\ UNCHANGED <<calendarVars, nseVars, peerVars>>

CallCleanAgain ==
    /\ once # NotCalled
    /\ once # ValueError
    /\ twice = NotCalled
    /\ twice' = clean_server_response(once)
    /\ UNCHANGED <<resp_dict, once>>
    /\ UNCHANGED <<calendarVars, nseVars, peerVars>>

NextClean == CallClean \/ CallCleanAgain

SpecClean == InitClean /\ [][NextClean]_vars

\* C8: clean_server_response returns a result for every mapping of strings,
\* floats and nulls, and cleaning that result again gives the same result.
C8_CleanIdempotent ==
    /\ once # ValueError
    /\ twice # NotCalled => twice = once

(***************************************************************************)
(* The extraction loop of Nse.get_peer_companies (lines 267-283).  The     *)
(* text after 'data:' is a sequence of tokens: the characters "{", "}",    *)
(* "," and "x" (any other character), and the members "I", "A" and "B",    *)
(* standing for the texts "industry":"..." , "name":"A" and "name":"B".    *)
(***************************************************************************)
MaxPieces == 3      \* records and fragments of one upstream text

Members == {"I", "A", "B"}

ValidRecords == { <<"{", "I", ",", "A", "}">>, <<"{", "I", ",", "B", "}">> }

MalformedFragments == { <<"{", "x", "}">>, <<"x">>, <<"{", "A">>, <<"}">> }

\* The upstream text: the pieces in order, a comma between two of them.
RECURSIVE Join(_)
Join(ps) ==
    IF ps = <<>> THEN <<>>
    ELSE IF Len(ps) = 1 THEN ps[1]
    ELSE ps[1] \o <<",">> \o Join(Tail(ps))

\* json.loads(string) succeeds on an object: "{", members with commas
\* between them, "}".
ParsesAsObject(string) ==
    /\ Len(string) >= 2
    /\ string[1] = "{"
    /\ string[Len(string)] = "}"
    /\ LET inner == SubSeq(string, 2, Len(string) - 1) IN
       \/ inner = <<>>
       \/ /\ Len(inner) % 2 = 1
          /\ \A i \in 1..Len(inner) :
                IF i % 2 = 1 THEN inner[i] \in Members ELSE inner[i] = ","

\* The decoded object's name (None without one); a later member of the same
\* key replaces an earlier one.
NameOf(string) ==
    LET named == {i \in 1..Len(string) : string[i] \in {"A", "B"}} IN
    IF named = {} THEN None
    ELSE string[CHOOSE i \in named : \A j \in named : j <= i]

HasIndustry(string) == \E i \in 1..Len(string) : string[i] = "I"

\* Lines 274-279: the record appended for `string`, if json.loads and the del
\* of its 'industry' both succeed.
Parsed(string) ==
    IF ParsesAsObject(string) /\ HasIndustry(string)
    THEN <<[name |-> NameOf(string)]>>
    ELSE <<>>

\* res[start:end] of line 273, for a start that fell inside a member's text:
\* what is left of that text comes first.
Slice(res, start, end, inside) ==
    (IF inside /\ start <= end THEN <<"x">> ELSE <<>>) \o SubSeq(res, start + 1, end)

\* Lines 269-281: re.finditer(r'({*})', res) yields one match per "}", each
\* ending right after it; `end` runs over those ends.  start = end + 1 skips
\* the token after the "}": `inside` tells that it was a member's first character.
RECURSIVE ExtractLoop(_, _, _, _)
ExtractLoop(res, end, start, inside) ==
    IF end > Len(res) THEN <<>>
    ELSE IF res[end] # "}" THEN ExtractLoop(res, end + 1, start, inside)
    ELSE Parsed(Slice(res, start, end, inside))
         \o ExtractLoop(res, end + 1, end + 1,
                        end + 1 <= Len(res) /\ res[end + 1] \in Members)

extract_peers(res) == ExtractLoop(res, 1, 0, FALSE)

InitPeers ==
    /\ CalendarIdle
    /\ NseIdle
    /\ CleanIdle
    /\ pieces \in UNION {[1..n -> ValidRecords \cup MalformedFragments] : n \in 0..MaxPieces}
    /\ data = NotCalled

CallExtractPeers ==
    /\ data = NotCalled
    /\ data' = [called |-> TRUE, records |-> extract_peers(Join(pieces))]
    /\ UNCHANGED pieces
    /\ UNCHANGED <<calendarVars, nseVars, cleanVars>>

NextPeers == CallExtractPeers

SpecPeers == InitPeers /\ [][NextPeers]_vars

\* C9: the extraction returns one record per valid record of the text, in their
\* order and without the industry field, whatever fragments lie between them.
C9_OneRecordPerValid ==
    data # NotCalled =>
        data.records =
            [i \in 1..Len(SelectSeq(pieces, LAMBDA q : q \in ValidRecords)) |->
                [name |-> SelectSeq(pieces, LAMBDA q : q \in ValidRecords)[i][4]]]

=============================================================================
